---- MODULE Spec2Model ----
(***************************************************************************)
(* Job execution and live log streaming of helmutkemper/recode.            *)
(*                                                                         *)
(*   Spec        the Node-RED runtime of src/node-red/nodes/clone/clone.js *)
(*               (SSE registry, ring buffer, spawned git processes):       *)
(*               several runs on two node ids                              *)
(*   SpecRing    the same handlers, one run of one node id with enough     *)
(*               output to fill the ring buffer and evict from it          *)
(*   SpecHub     the same handlers, one run and subscribers on two node    *)
(*               ids, with sockets that stop taking data                   *)
(*   SpecApi     the same handlers with the HTTP responses of start and    *)
(*               cancel, and a spawn() that can fail                       *)
(*   SpecWriter  the line assembler sseWriter.Write of src/server/main.go  *)
(*   SpecServer  the hub, the stream handlers and the simulated jobs of    *)
(*               src/server/main.go as interleaved goroutines              *)
(*                                                                         *)
(* JavaScript handlers run to completion on one event loop, so each        *)
(* handler is one action.  Handlers are written as operators over a state  *)
(* record (see Cur / Commit) so that the order of the calls a handler      *)
(* makes is the order of the code.                                         *)
(***************************************************************************)
EXTENDS Integers, Sequences, FiniteSets, TLC

VARIABLES
    streams,    \* clone.js:62  Map nodeId -> Set(res); res is an index of conns
    buffers,    \* clone.js:63  Map nodeId -> string[]
    procs,      \* clone.js:64  Map nodeId -> ChildProcess; a child is an index of children
    children,   \* every ChildProcess spawned so far, in spawn order
    conns,      \* every SSE connection accepted so far, in accept order
    nodeOut,    \* what the handlers sent through the Node-RED node (n.send / n.status)
    pubLog,     \* history: per nodeId, every payload handed to broadcast()
    ringMiss,   \* history: live log frames written while absent from the ring buffer
    chunkNo,    \* number of output chunks the child processes produced so far
    pings,      \* number of heartbeat frames written so far
    reply,      \* the HTTP response of the request handler that ran last, if one did
    hostUp,     \* the Node.js process of the runtime is running
    wbuf,       \* main.go:135  sseWriter.buf
    wout,       \* the Line fields sseWriter.Write handed to broadcast, in order
    wchunks,    \* history: the chunks passed to sseWriter.Write, in order
    pair,       \* main.go:245-246  the stdout and stderr writers of one job
    hubClients, \* main.go:87  sseHub.clients: nodeId -> map object, an index of hubSets
    hubSets,    \* the map[*sseClient]struct{} objects made so far, as sets of handlers
    handlers,   \* the goroutines of handleGitStream, each with its sseClient
    jobs,       \* the goroutines started by handleGitStart
    store,      \* main.go:311  the memoryStore, with the history of its calls
    injects,    \* git.js:31  the POST /git/:id/inject requests made so far
    editor      \* the diagram of the Node-RED editor and the link guard loaded in it

cloneVars  == <<streams, buffers, procs, children, conns, nodeOut, pubLog, ringMiss,
                chunkNo, pings, reply, hostUp>>
writerVars == <<wbuf, wout, wchunks, pair>>
unitVars   == <<store, injects, editor>>
serverVars == <<hubClients, hubSets, handlers, jobs>>
vars       == <<cloneVars, writerVars, unitVars, serverVars>>

----------------------------------------------------------------------------
(* Bounds of the model.  A specification bounds what the environment      *)
(* produces (processes spawned + connections accepted + output chunks +    *)
(* heartbeats) by one number, so that the histories stay small.            *)

MaxEvents == 4   \* Spec: events of the environment
MaxRuns == 2     \* Spec: child processes spawned
RingEvents == 6  \* SpecRing: events of the environment
RingCap  == 2    \* stands for the 2000 of clone.js:79, scaled to the model
MaxWrites == 3   \* calls of sseWriter.Write
PairWrites == 3  \* SpecPair: calls of Write on the two writers of a job
HubEvents == 4   \* SpecHub: events of the environment
ApiEvents == 2   \* SpecApi: events of the environment
ApiRuns == 2     \* SpecApi: child processes spawned
OutEvents == 2   \* SpecOutcome: events of the environment
OutRuns == 2     \* SpecOutcome: child processes spawned
SrvClients == 2  \* SpecServer: connections to the stream endpoint
SrvJobs == 1     \* SpecServer: jobs started
SrvTicks == 1    \* SpecServer: ticks of a job before its time is over
SrvPings == 1    \* SpecServer: keep-alive ticks of a connection
JobEvents == 3   \* SpecJob: connections + jobs started + ticks of the jobs
SetsEvents == 3  \* SpecSets: connections and heartbeats of clone.js
SetsClients == 2 \* SpecSets: connections to the stream endpoint of main.go
StoreMax == 2    \* SpecStore: the largest max of newMemoryStore
StoreAdds == 4   \* SpecStore: calls of memoryStore.add
InjectPosts == 2 \* SpecInject: requests made
InjectCap == 2   \* stands for the 1<<20 of git.js:49, scaled to the model
InjectChunks == 2 \* SpecInject: 'data' events of one request
GuardEvents == 2 \* SpecGuard: links:add events

NodeIds == {"n1", "n2"}

\* the ids RED.nodes.getNode resolves: "n2" names no node of the deployed flow
DeployedNodes == {"n1"}
StdStreams == {"stdout", "stderr"}

\* Spec: runs of one node, output on stderr (git's progress stream)
LifeLimits ==
    [events |-> MaxEvents, runs |-> MaxRuns, nodes |-> {"n1"}, streams |-> {"stderr"},
     replies |-> FALSE, spawns |-> {TRUE}]

\* SpecRing: one run of one node, output on both streams
RingLimits ==
    [events |-> RingEvents, runs |-> 1, nodes |-> {"n1"}, streams |-> StdStreams,
     replies |-> FALSE, spawns |-> {TRUE}]

\* SpecHub: one run, subscribers on two nodes, sockets that fail
HubLimits ==
    [events |-> HubEvents, runs |-> 1, nodes |-> NodeIds, streams |-> {"stderr"},
     replies |-> FALSE, spawns |-> {TRUE}]

\* SpecApi: the requests with their responses, spawn() that can fail
ApiLimits ==
    [events |-> ApiEvents, runs |-> ApiRuns, nodes |-> NodeIds, streams |-> {"stderr"},
     replies |-> TRUE, spawns |-> {TRUE, FALSE}]

\* SpecSets: subscribers that come and go
SetsLimits ==
    [events |-> SetsEvents, runs |-> 0, nodes |-> NodeIds, streams |-> {"stderr"},
     replies |-> FALSE, spawns |-> {TRUE}]

\* SpecOutcome: the ends a run can take, with the responses of cancel
OutcomeLimits ==
    [events |-> OutEvents, runs |-> OutRuns, nodes |-> NodeIds, streams |-> {"stderr"},
     replies |-> TRUE, spawns |-> {TRUE}]

----------------------------------------------------------------------------
(* Helpers for JavaScript Map and arrays.                                  *)

MapSet(m, k, v) == [x \in (DOMAIN m) \cup {k} |-> IF x = k THEN v ELSE m[x]]

MapDelete(m, k) == [x \in (DOMAIN m) \ {k} |-> m[x]]

Range(s) == {s[i] : i \in DOMAIN s}

Min(a, b) == IF a < b THEN a ELSE b

LastN(s, n) == SubSeq(s, Len(s) - n + 1, Len(s))

----------------------------------------------------------------------------
(* clone.js: the state the handlers thread through their calls.            *)

Cur ==
    [streams |-> streams, buffers |-> buffers, procs |-> procs, conns |-> conns,
     nodeOut |-> nodeOut, pubLog |-> pubLog, ringMiss |-> ringMiss]

Commit(s) ==
    /\ streams' = s.streams
    /\ buffers' = s.buffers
    /\ procs' = s.procs
    /\ conns' = s.conns
    /\ nodeOut' = s.nodeOut
    /\ pubLog' = s.pubLog
    /\ ringMiss' = s.ringMiss

\* `[${stream}] ${line}`: the text is a sequence of characters
Format(stream, line) == <<"[", stream, "] ">> \o line

LogPayloadSeq(c, stream, line) ==
    [type |-> "log", stream |-> stream, line |-> line, run |-> c, seq |-> c]

\* the payload objects; run is a history field naming the child that produced it
LogPayload(c, stream, line) ==
    [type |-> "log", stream |-> stream, line |-> line, run |-> c]

DonePayload(c, code, target) ==
    [type |-> "done", code |-> code, target |-> target, run |-> c]

\* `data: ${JSON.stringify(payload)}\n\n`
DataFrame(payload) == [event |-> "message", data |-> payload]

\* "event: ping\ndata: {}\n\n"
PingFrame == [event |-> "ping", data |-> <<>>]

resWrite(s, res, frame) ==
    [s EXCEPT !.conns[res].wire = Append(@, frame)]

addClientReplace(s, nodeId, res) ==
    [s EXCEPT !.streams = MapSet(@, nodeId, {res})]

addClientAll(s, nodeId, res) ==
    [s EXCEPT !.streams =
        [id \in NodeIds |-> (IF id \in DOMAIN s.streams THEN s.streams[id] ELSE {})
                                \cup {res}]]

addClient(s, nodeId, res) ==
    LET m == IF nodeId \in DOMAIN s.streams THEN s.streams
             ELSE MapSet(s.streams, nodeId, {})
    IN  [s EXCEPT !.streams = MapSet(m, nodeId, m[nodeId] \cup {res})]

removeClientKeepEmpty(s, nodeId, res) ==
    IF nodeId \notin DOMAIN s.streams THEN s
    ELSE [s EXCEPT !.streams = MapSet(@, nodeId, s.streams[nodeId] \ {res})]

removeClient(s, nodeId, res) ==
    IF nodeId \notin DOMAIN s.streams THEN s
    ELSE LET set == s.streams[nodeId] \ {res}
         IN  IF set = {} THEN [s EXCEPT !.streams = MapDelete(@, nodeId)]
             ELSE [s EXCEPT !.streams = MapSet(@, nodeId, set)]

RingOf(s, nodeId) == IF nodeId \in DOMAIN s.buffers THEN s.buffers[nodeId] ELSE <<>>

pushLogNoShift(s, nodeId, line) ==
    [s EXCEPT !.buffers = MapSet(@, nodeId, Append(RingOf(s, nodeId), line))]

pushLogShiftEarly(s, nodeId, line) ==
    LET pushed == Append(RingOf(s, nodeId), line)
        buf == IF Len(pushed) >= RingCap THEN Tail(pushed) ELSE pushed
    IN  [s EXCEPT !.buffers = MapSet(@, nodeId, buf)]

pushLogFront(s, nodeId, line) ==
    LET pushed == <<line>> \o RingOf(s, nodeId)
        buf == IF Len(pushed) > RingCap THEN SubSeq(pushed, 1, RingCap) ELSE pushed
    IN  [s EXCEPT !.buffers = MapSet(@, nodeId, buf)]

pushLog(s, nodeId, line) ==
    LET pushed == Append(RingOf(s, nodeId), line)
        buf == IF Len(pushed) > RingCap THEN Tail(pushed) ELSE pushed
    IN  [s EXCEPT !.buffers = MapSet(@, nodeId, buf)]

RECURSIVE writeAll(_, _, _)
writeAll(s, set, frame) ==
    IF set = {} THEN s
    ELSE LET res == CHOOSE r \in set : TRUE
         IN  writeAll(resWrite(s, res, frame), set \ {res}, frame)

\* history kept by broadcast: the payload, and whether a log line it writes to a
\* subscriber is in the ring buffer at that moment
Recorded(s, nodeId, payload) ==
    LET set == IF nodeId \in DOMAIN s.streams THEN s.streams[nodeId] ELSE {}
        miss == IF payload.type = "log"
                   /\ Format(payload.stream, payload.line) \notin Range(RingOf(s, nodeId))
                THEN {<<res, payload.line>> : res \in set}
                ELSE {}
    IN  [s EXCEPT !.pubLog[nodeId] = Append(@, payload),
                  !.ringMiss = @ \cup miss]

broadcastEveryone(s, nodeId, payload) ==
    LET h == Recorded(s, nodeId, payload)
    IN  writeAll(h, UNION {h.streams[k] : k \in DOMAIN h.streams}, DataFrame(payload))

broadcastDropFailed(s, nodeId, payload) ==
    LET h == Recorded(s, nodeId, payload)
    IN  IF nodeId \notin DOMAIN h.streams THEN h
        ELSE LET w == writeAll(h, h.streams[nodeId], DataFrame(payload))
                 kept == {res \in h.streams[nodeId] : w.conns[res].up}
             IN  [w EXCEPT !.streams = IF kept = {} THEN MapDelete(@, nodeId)
                                       ELSE MapSet(@, nodeId, kept)]

broadcast(s, nodeId, payload) ==
    LET h == Recorded(s, nodeId, payload)
    IN  IF nodeId \notin DOMAIN h.streams THEN h
        ELSE writeAll(h, h.streams[nodeId], DataFrame(payload))

sendLinePublishFirst(s, c, nodeId, line, stream) ==
    pushLog(broadcast(s, nodeId, LogPayload(c, stream, line)),
            nodeId, Format(stream, line))

sendLine(s, c, nodeId, line, stream) ==
    broadcast(pushLog(s, nodeId, Format(stream, line)),
              nodeId, LogPayload(c, stream, line))

\* RED.nodes.getNode(nodeId) finds a node
getNode(nodeId) == nodeId \in DeployedNodes

\* n.send / n.status of the close handler, under its `if (n)`.  The field at is
\* history: the number of payloads published for nodeId when the message is sent
notifyDone(s, nodeId, code, target, repo) ==
    IF ~getNode(nodeId) THEN s
    ELSE [s EXCEPT !.nodeOut[nodeId] =
            [sent |-> Append(@.sent, [event |-> "done", code |-> code, target |-> target,
                                      repo |-> repo, at |-> Len(s.pubLog[nodeId])]),
             status |-> IF code = <<0>> THEN "green" ELSE "red"]]

onCloseIfRegistered(s, c, nodeId, code, target, repo) ==
    IF nodeId \notin DOMAIN s.procs THEN s
    ELSE LET s1 == [s EXCEPT !.procs = MapDelete(@, nodeId)]
             s2 == broadcast(s1, nodeId, DonePayload(c, code, target))
         IN  notifyDone(s2, nodeId, code, target, repo)

onCloseKeepEntry(s, c, nodeId, code, target, repo) ==
    notifyDone(broadcast(s, nodeId, DonePayload(c, code, target)),
               nodeId, code, target, repo)

onCloseNotifyFirst(s, c, nodeId, code, target, repo) ==
    LET s1 == [s EXCEPT !.procs = MapDelete(@, nodeId)]
        s2 == notifyDone(s1, nodeId, code, target, repo)
    IN  broadcast(s2, nodeId, DonePayload(c, code, target))

onCloseCodeZero(s, c, nodeId, code, target, repo) ==
    LET s1 == [s EXCEPT !.procs = MapDelete(@, nodeId)]
        s2 == broadcast(s1, nodeId, DonePayload(c, <<0>>, target))
    IN  notifyDone(s2, nodeId, <<0>>, target, repo)

onCloseDeleteOnSuccess(s, c, nodeId, code, target, repo) ==
    LET s1 == IF code = <<0>> THEN [s EXCEPT !.procs = MapDelete(@, nodeId)] ELSE s
        s2 == broadcast(s1, nodeId, DonePayload(c, code, target))
    IN  notifyDone(s2, nodeId, code, target, repo)

onCloseStoreDone(s, c, nodeId, code, target, repo) ==
    LET s1 == [s EXCEPT !.procs = MapDelete(@, nodeId)]
        s2 == pushLog(s1, nodeId, <<"[", "done", "] ">>)
        s3 == broadcast(s2, nodeId, DonePayload(c, code, target))
    IN  notifyDone(s3, nodeId, code, target, repo)

\* child.on("close", (code) => ...)
onClose(s, c, nodeId, code, target, repo) ==
    LET s1 == [s EXCEPT !.procs = MapDelete(@, nodeId)]
        s2 == broadcast(s1, nodeId, DonePayload(c, code, target))
    IN  notifyDone(s2, nodeId, code, target, repo)

ListensOnExit(ev) == ev = "exit"

\* the event of the ChildProcess the terminal handler is registered for
ListensOn(ev) == ev = "close"

----------------------------------------------------------------------------
(* clone.js: the requests.                                                 *)

\* no request handler ran last
NoReply == [op |-> "none", nodeId |-> "", repo |-> "", status |-> 0]

\* res.status(status).json(...) of the handler op; a specification that does not
\* look at the responses keeps none
Reply(lim, op, nodeId, repo, status) ==
    IF lim.replies THEN [op |-> op, nodeId |-> nodeId, repo |-> repo, status |-> status]
    ELSE NoReply

\* what the environment has produced so far
Budget == Len(children) + Len(conns) + chunkNo + pings

Repos == {"https://host/r.git", "ftp://host/r", ""}

\* /^((git@|https?:\/\/)[\w.-]+[:/])/ on the repositories of the model
RepoUrlOk(repo) == repo \in {"https://host/r.git"}

StartValidNoGuard(req) == req.nodeId # "" /\ req.repo # ""

StartValid(req) == req.nodeId # "" /\ req.repo # "" /\ RepoUrlOk(req.repo)

\* path.join(os.tmpdir(), "node-red-git", nodeId, base)
TargetOf(nodeId) == <<"tmp", "node-red-git", nodeId, "repo">>

\* the exit code a child can report: <<>> stands for null (ended by a signal).
\* A child that was sent SIGTERM is taken to end by it.
ExitCodes(signalled) == IF signalled THEN {<<>>} ELSE {<<0>>, <<1>>}

InitClone ==
    /\ streams = <<>>
    /\ buffers = <<>>
    /\ procs = <<>>
    /\ children = <<>>
    /\ conns = <<>>
    /\ nodeOut = [n \in NodeIds |-> [sent |-> <<>>, status |-> "grey"]]
    /\ pubLog = [n \in NodeIds |-> <<>>]
    /\ ringMiss = {}
    /\ chunkNo = 0
    /\ pings = 0
    /\ reply = NoReply
    /\ hostUp = TRUE

InitWriterIdle ==
    /\ wbuf = <<>>
    /\ wout = <<>>
    /\ wchunks = <<>>
    /\ pair = [buf |-> [w \in StdStreams |-> <<>>], out |-> <<>>, chunks |-> <<>>]

\* POST /git/clone/start, request refused with 400
StartRejected(lim, req) ==
    /\ ~StartValid(req)
    /\ reply' = Reply(lim, "start", req.nodeId, req.repo, 400)
    /\ UNCHANGED <<streams, buffers, procs, children, conns, nodeOut, pubLog, ringMiss,
                   chunkNo, pings, hostUp, writerVars, unitVars, serverVars>>

\* POST /git/clone/start, git spawned
StartSpawn(lim, req) ==
    /\ StartValid(req)
    /\ Budget < lim.events
    /\ Len(children) < lim.runs
    /\ \E spawned \in lim.spawns :
          LET c == Len(children) + 1
              s1 == [Cur EXCEPT !.procs = MapSet(@, req.nodeId, c)]
              s2 == IF getNode(req.nodeId)
                    THEN [s1 EXCEPT !.nodeOut[req.nodeId].status = "blue"]
                    ELSE s1
          IN  /\ children' = Append(children,
                     [node |-> req.nodeId, st |-> IF spawned THEN "alive" ELSE "failing",
                      sig |-> FALSE, code |-> <<>>,
                      target |-> TargetOf(req.nodeId), repo |-> req.repo])
              /\ Commit(s2)
    /\ reply' = Reply(lim, "start", req.nodeId, req.repo, 202)
    /\ UNCHANGED <<chunkNo, pings, hostUp, writerVars, unitVars, serverVars>>

\* the 'error' event of a ChildProcess that could not be spawned, emitted on the
\* tick after spawn() returned: the child has no "error" listener, so emit throws
\* and the uncaught exception ends the process of the runtime
SpawnError(c) ==
    /\ children[c].st = "failing"
    /\ children' = [children EXCEPT ![c].st = "errored"]
    /\ hostUp' = FALSE
    /\ reply' = NoReply
    /\ UNCHANGED <<streams, buffers, procs, conns, nodeOut, pubLog, ringMiss,
                   chunkNo, pings, writerVars, unitVars, serverVars>>

\* child.stdout.on("data") / child.stderr.on("data")
ChildData(lim, c, stream) ==
    /\ children[c].st \in {"alive", "exited"}
    /\ Budget < lim.events
    /\ chunkNo' = chunkNo + 1
    /\ Commit(sendLine(Cur, c, children[c].node, <<chunkNo + 1>>, stream))
    /\ reply' = NoReply
    /\ UNCHANGED <<children, pings, hostUp, writerVars, unitVars, serverVars>>

Terminal(s, c, code) ==
    onClose(s, c, children[c].node, code, children[c].target, children[c].repo)

\* the process ends: 'exit' is emitted, the pipes may still hold output
ChildExit(c) ==
    /\ children[c].st = "alive"
    /\ \E code \in ExitCodes(children[c].sig) :
          /\ children' = [children EXCEPT ![c].st = "exited", ![c].code = code]
          /\ Commit(IF ListensOn("exit") THEN Terminal(Cur, c, code) ELSE Cur)
    /\ reply' = NoReply
    /\ UNCHANGED <<chunkNo, pings, hostUp, writerVars, unitVars, serverVars>>

\* the process is ended by a signal that no cancel request sent (the kernel, an
\* operator): 'exit' is emitted with code null, as after the SIGTERM of cancel
ChildKilled(c) ==
    /\ children[c].st = "alive"
    /\ children' = [children EXCEPT ![c].st = "exited", ![c].code = <<>>]
    /\ Commit(IF ListensOn("exit") THEN Terminal(Cur, c, <<>>) ELSE Cur)
    /\ reply' = NoReply
    /\ UNCHANGED <<chunkNo, pings, hostUp, writerVars, unitVars, serverVars>>

\* the process has ended and its pipes are closed: 'close' is emitted
ChildClose(c) ==
    /\ children[c].st = "exited"
    /\ children' = [children EXCEPT ![c].st = "closed"]
    /\ Commit(IF ListensOn("close") THEN Terminal(Cur, c, children[c].code) ELSE Cur)
    /\ reply' = NoReply
    /\ UNCHANGED <<chunkNo, pings, hostUp, writerVars, unitVars, serverVars>>

\* POST /git/clone/cancel, 404
CancelNotFound(lim, nodeId) ==
    /\ nodeId = "" \/ nodeId \notin DOMAIN procs
    /\ reply' = Reply(lim, "cancel", nodeId, "", 404)
    /\ UNCHANGED <<streams, buffers, procs, children, conns, nodeOut, pubLog, ringMiss,
                   chunkNo, pings, hostUp, writerVars, unitVars, serverVars>>

\* POST /git/clone/cancel, p.kill("SIGTERM")
CancelKill(lim, nodeId) ==
    /\ nodeId \in DOMAIN procs
    /\ reply' = Reply(lim, "cancel", nodeId, "", 200)
    /\ LET p == procs[nodeId]
       IN  children' = IF children[p].st = "alive"
                       THEN [children EXCEPT ![p].sig = TRUE]
                       ELSE children
    /\ UNCHANGED <<streams, buffers, procs, conns, nodeOut, pubLog, ringMiss,
                   chunkNo, pings, hostUp, writerVars, unitVars, serverVars>>

\* GET /git/clone/stream/:id
Subscribe(lim, nodeId) ==
    /\ Budget < lim.events
    /\ LET res == Len(conns) + 1
           hist == RingOf(Cur, nodeId)
           s1 == [Cur EXCEPT !.conns = Append(@,
                     [node |-> nodeId, open |-> TRUE, hb |-> TRUE, wire |-> <<>>,
                      at |-> Len(pubLog[nodeId]), up |-> TRUE, cut |-> 0])]
           s2 == resWrite(s1, res, DataFrame([type |-> "bootstrap", hist |-> hist]))
       IN  Commit(addClient(s2, nodeId, res))
    /\ reply' = NoReply
    /\ UNCHANGED <<children, chunkNo, pings, hostUp, writerVars, unitVars, serverVars>>

\* the setInterval callback of a connection
Heartbeat(lim, res) ==
    /\ conns[res].hb
    /\ Budget < lim.events
    /\ pings' = pings + 1
    /\ Commit(resWrite(Cur, res, PingFrame))
    /\ reply' = NoReply
    /\ UNCHANGED <<children, chunkNo, hostUp, writerVars, unitVars, serverVars>>

\* req.on("close")
ReqClose(res) ==
    /\ conns[res].open
    /\ LET s1 == [Cur EXCEPT !.conns[res].hb = FALSE]
           s2 == removeClient(s1, conns[res].node, res)
       IN  Commit([s2 EXCEPT !.conns[res].open = FALSE])
    /\ reply' = NoReply
    /\ UNCHANGED <<children, chunkNo, pings, hostUp, writerVars, unitVars, serverVars>>

\* the socket of a connection stops taking data (the peer is gone): from here on
\* a write to it fails, and later the connection's "close" event is emitted.
\* wire keeps every frame handed to res.write; those after cut were lost
SocketDown(res) ==
    /\ conns[res].open
    /\ conns[res].up
    /\ conns' = [conns EXCEPT ![res].up = FALSE, ![res].cut = Len(conns[res].wire)]
    /\ reply' = NoReply
    /\ UNCHANGED <<streams, buffers, procs, children, nodeOut, pubLog, ringMiss,
                   chunkNo, pings, hostUp, writerVars, unitVars, serverVars>>

----------------------------------------------------------------------------
(* main.go: the line assembler sseWriter.Write.  A byte is a one-character *)
(* string; a chunk, a line and the buffer are sequences of bytes.          *)

Bytes == {"a", "b", "c", "\r", "\n"}

\* the chunks the model writes: one or two bytes
Chunks == {<<x>> : x \in Bytes} \cup {<<x, y>> : x \in Bytes, y \in Bytes}

\* bufio's dropCR
dropCR(data) ==
    IF Len(data) > 0 /\ data[Len(data)] = "\r" THEN SubSeq(data, 1, Len(data) - 1)
    ELSE data

\* index of the first "\n" of data, 0 when there is none (bytes.IndexByte + 1)
RECURSIVE IndexLF(_, _)
IndexLF(data, i) ==
    IF i > Len(data) THEN 0
    ELSE IF data[i] = "\n" THEN i
    ELSE IndexLF(data, i + 1)

\* the tokens sc.Scan() yields over bytes.NewReader(data) with bufio.ScanLines:
\* each "\n"-terminated line without its end-of-line marker and, at the end of
\* the reader, the unterminated rest when it is not empty
RECURSIVE ScanLines(_)
ScanLines(data) ==
    IF Len(data) = 0 THEN <<>>
    ELSE LET i == IndexLF(data, 1)
         IN  IF i > 0
             THEN <<dropCR(SubSeq(data, 1, i - 1))>>
                  \o ScanLines(SubSeq(data, i + 1, Len(data)))
             ELSE <<dropCR(data)>>

\* used += len(line) + 1 over the scanned lines
RECURSIVE UsedBy(_)
UsedBy(toks) ==
    IF toks = <<>> THEN 0 ELSE Len(Head(toks)) + 1 + UsedBy(Tail(toks))

\* sseWriter.Write(p) on buffer buf: the new buffer and the Line of each broadcast
sseWrite(buf, p) ==
    LET data == buf \o p
        toks == ScanLines(data)
        used == IF UsedBy(toks) > Len(data) THEN Len(data) ELSE UsedBy(toks)
    IN  [buf |-> SubSeq(data, used + 1, Len(data)),
         lines |-> [i \in 1..Len(toks) |-> toks[i] \o <<"\n">>]]

Write(p) ==
    /\ Len(wchunks) < MaxWrites
    /\ LET r == sseWrite(wbuf, p)
       IN  /\ wbuf' = r.buf
           /\ wout' = wout \o r.lines
    /\ wchunks' = Append(wchunks, p)
    /\ UNCHANGED <<pair, cloneVars, serverVars, unitVars>>

\* the chunks written to the two writers of a job
PairChunks ==
    LET few == {"a", "\r", "\n"}
    IN  {<<x>> : x \in few} \cup {<<x, y>> : x \in few, y \in few}

LiveLogWriterShared(stream) == "stdout"

\* LiveLogWriter(h, nodeID, stream): &sseWriter{h: h, id: nodeID, stream: stream},
\* a new object with a buf of its own; the model names the object by its stream
LiveLogWriter(stream) == stream

\* fmt.Fprint(stdout, p) or fmt.Fprint(stderr, p) of a job: Write(p) on that
\* writer; pair.out is what it hands to broadcast
PairWrite(stream, p) ==
    /\ Len(pair.chunks) < PairWrites
    /\ LET w == LiveLogWriter(stream)
           r == sseWrite(pair.buf[w], p)
       IN  pair' = [buf |-> [pair.buf EXCEPT ![w] = r.buf],
                    out |-> pair.out \o [i \in 1..Len(r.lines) |->
                                            [stream |-> stream, line |-> r.lines[i]]],
                    chunks |-> Append(pair.chunks, [stream |-> stream, p |-> p])]
    /\ UNCHANGED <<wbuf, wout, wchunks, cloneVars, serverVars, unitVars>>

----------------------------------------------------------------------------
(* main.go: the hub, the stream handlers and the simulated jobs.  Every    *)
(* request runs in a goroutine of its own, so a handler is several         *)
(* actions: one for each stretch of code between two points where another  *)
(* goroutine can run and make a difference (a lock section, a write to a   *)
(* connection, a select).                                                  *)

\* the hub as the operators below thread it
Hub == [clients |-> hubClients, sets |-> hubSets]

CommitHub(h) ==
    /\ hubClients' = h.clients
    /\ hubSets' = h.sets

\* sseHub.add under h.mu.Lock: make(map) is a new object of hubSets
hubAdd(h, id, c) ==
    IF id \in DOMAIN h.clients
    THEN [h EXCEPT !.sets[h.clients[id]] = @ \cup {c}]
    ELSE [clients |-> MapSet(h.clients, id, Len(h.sets) + 1),
          sets |-> Append(h.sets, {c})]

\* sseHub.remove under h.mu.Lock
hubRemove(h, id, c) ==
    IF id \notin DOMAIN h.clients THEN h
    ELSE LET k == h.clients[id]
             set == h.sets[k] \ {c}
         IN  [clients |-> IF set = {} THEN MapDelete(h.clients, id) ELSE h.clients,
              sets |-> [h.sets EXCEPT ![k] = set]]

\* "data: {\"type\":\"hello\"}\n\n"
HelloFrame == DataFrame([type |-> "hello"])

\* sseMsg{Type: "log", Stream, Line}; job is history: the goroutine that sent it
GoLog(j, stream, line) == [type |-> "log", stream |-> stream, line |-> line, job |-> j]

\* sseMsg{Type: "done", Code: 0, Target: target, Line: "finished\n"}
GoDone(j, id) ==
    [type |-> "done", code |-> 0, target |-> <<"tmp", "fake", id>>,
     line |-> <<"finished", "\n">>, job |-> j]

\* json.Marshal(msg): a field tagged omitempty is left out when it has the zero
\* value of its type (job is carried along as history)
Marshal(msg) ==
    LET zero(f) == \/ f = "code" /\ msg[f] = 0
                   \/ f = "stream" /\ msg[f] = ""
                   \/ f \in {"line", "target"} /\ msg[f] = <<>>
    IN  [f \in {g \in DOMAIN msg : ~zero(g)} |-> msg[f]]

\* the text of the tick's Fprintf / Fprintln, with its end of line
TickText(step) ==
    IF step % 4 = 0 THEN <<"remote: counting objects...", "\n">>
    ELSE <<"Cloning into", ToString(step), "\n">>

TickStream(step) == IF step % 4 = 0 THEN "stderr" ELSE "stdout"

\* GET /git/clone/stream/{id} up to and including h.add
StreamOpen(id) ==
    /\ Len(handlers) < SrvClients
    /\ handlers' = Append(handlers,
           [id |-> id, pc |-> "hello", wire |-> <<>>, stalled |-> FALSE, pinged |-> 0])
    /\ CommitHub(hubAdd(Hub, id, Len(handlers) + 1))
    /\ UNCHANGED <<jobs, cloneVars, writerVars, unitVars>>

\* w.Write of the hello event; a write blocks while the peer does not read
StreamHello(c) ==
    /\ handlers[c].pc = "hello"
    /\ ~handlers[c].stalled
    /\ handlers' = [handlers EXCEPT ![c].wire = Append(@, HelloFrame), ![c].pc = "loop"]
    /\ UNCHANGED <<hubClients, hubSets, jobs, cloneVars, writerVars, unitVars>>

\* case <-tick.C
StreamPing(c) ==
    /\ handlers[c].pc = "loop"
    /\ ~handlers[c].stalled
    /\ handlers[c].pinged < SrvPings
    /\ handlers' = [handlers EXCEPT ![c].wire = Append(@, PingFrame),
                                    ![c].pinged = @ + 1]
    /\ UNCHANGED <<hubClients, hubSets, jobs, cloneVars, writerVars, unitVars>>

\* case <-ctx.Done(): h.remove and return
StreamDone(c) ==
    /\ handlers[c].pc = "loop"
    /\ handlers' = [handlers EXCEPT ![c].pc = "gone"]
    /\ CommitHub(hubRemove(Hub, handlers[c].id, c))
    /\ UNCHANGED <<jobs, cloneVars, writerVars, unitVars>>

\* the peer of a connection stops reading, or reads again
PeerStalls(c) ==
    /\ handlers[c].pc # "gone"
    /\ handlers' = [handlers EXCEPT ![c].stalled = ~@]
    /\ UNCHANGED <<hubClients, hubSets, jobs, cloneVars, writerVars, unitVars>>

GoStartIds == {"n1", ""}

\* POST /git/clone/start answered 400
GoStartRejected(id) ==
    /\ id = ""
    /\ UNCHANGED vars

\* POST /git/clone/start: go func(id string) { ... }
GoStart(id) ==
    /\ id # ""
    /\ Len(jobs) < SrvJobs
    /\ jobs' = Append(jobs,
           [id |-> id, pc |-> "first", step |-> 0, obuf |-> <<>>, ebuf |-> <<>>,
            queue |-> <<>>, last |-> FALSE, ref |-> 0, visited |-> {}, cur |-> 0])
    /\ UNCHANGED <<hubClients, hubSets, handlers, cloneVars, writerVars, unitVars>>

\* the broadcasts one Write of a LiveLogWriter makes, and the writer's buffer after it
Written(j, buf, stream, p) ==
    LET r == sseWrite(buf, p)
    IN  [buf |-> r.buf,
         msgs |-> [i \in 1..Len(r.lines) |-> GoLog(j, stream, r.lines[i])]]

\* fmt.Fprintln(stdout, "starting clone...")
JobFirst(j) ==
    /\ jobs[j].pc = "first"
    /\ LET w == Written(j, jobs[j].obuf, "stdout", <<"starting clone...", "\n">>)
       IN  jobs' = [jobs EXCEPT ![j].obuf = w.buf, ![j].queue = w.msgs,
                                ![j].pc = IF w.msgs = <<>> THEN "select" ELSE "publish"]
    /\ UNCHANGED <<hubClients, hubSets, handlers, cloneVars, writerVars, unitVars>>

\* case <-t.C
JobTick(j) ==
    /\ jobs[j].pc = "select"
    /\ jobs[j].step < SrvTicks
    /\ LET step == jobs[j].step + 1
           err == TickStream(step) = "stderr"
           w == Written(j, IF err THEN jobs[j].ebuf ELSE jobs[j].obuf,
                        TickStream(step), TickText(step))
       IN  jobs' = [jobs EXCEPT ![j].step = step,
                                ![j].obuf = IF err THEN @ ELSE w.buf,
                                ![j].ebuf = IF err THEN w.buf ELSE @,
                                ![j].queue = w.msgs,
                                ![j].pc = IF w.msgs = <<>> THEN "select" ELSE "publish"]
    /\ UNCHANGED <<hubClients, hubSets, handlers, cloneVars, writerVars, unitVars>>

\* case <-ctx.Done(): the two minutes are over
JobTimeout(j) ==
    /\ jobs[j].pc = "select"
    /\ jobs' = [jobs EXCEPT ![j].queue = <<GoDone(j, jobs[j].id)>>, ![j].last = TRUE,
                            ![j].pc = "publish"]
    /\ UNCHANGED <<hubClients, hubSets, handlers, cloneVars, writerVars, unitVars>>

\* where a job goes on when a broadcast has returned
Returned(job) ==
    [job EXCEPT !.queue = Tail(@), !.ref = 0, !.visited = {}, !.cur = 0,
                !.pc = IF Len(job.queue) > 1 THEN "publish"
                       ELSE IF job.last THEN "returned" ELSE "select"]

\* sseHub.broadcast up to the loop: set := h.clients[id] under RLock, len(set) == 0
BroadcastBegin(j) ==
    /\ jobs[j].pc = "publish"
    /\ LET id == jobs[j].id
           ref == IF id \in DOMAIN hubClients THEN hubClients[id] ELSE 0
       IN  jobs' = IF ref = 0 \/ hubSets[ref] = {}
                   THEN [jobs EXCEPT ![j] = Returned(@)]
                   ELSE [jobs EXCEPT ![j].ref = ref, ![j].visited = {}, ![j].pc = "range"]
    /\ UNCHANGED <<hubClients, hubSets, handlers, cloneVars, writerVars, unitVars>>

\* for c := range set: the next key of the map object, which add and remove may
\* be changing meanwhile; the order of a map's keys is not defined
BroadcastNext(j, c) ==
    /\ jobs[j].pc = "range"
    /\ c \in hubSets[jobs[j].ref] \ jobs[j].visited
    /\ jobs' = [jobs EXCEPT ![j].cur = c, ![j].pc = "write"]
    /\ UNCHANGED <<hubClients, hubSets, handlers, cloneVars, writerVars, unitVars>>

\* c.w.Write and c.fl.Flush of the loop return: they block while the peer of an
\* open connection does not read, and their error is dropped
BroadcastWrite(j) ==
    /\ jobs[j].pc = "write"
    /\ handlers[jobs[j].cur].pc = "gone" \/ ~handlers[jobs[j].cur].stalled
    /\ handlers' = [handlers EXCEPT
           ![jobs[j].cur].wire = Append(@, DataFrame(Marshal(Head(jobs[j].queue))))]
    /\ jobs' = [jobs EXCEPT ![j].visited = @ \cup {jobs[j].cur}, ![j].cur = 0,
                            ![j].pc = "range"]
    /\ UNCHANGED <<hubClients, hubSets, cloneVars, writerVars, unitVars>>

\* the loop of broadcast ends
BroadcastReturn(j) ==
    /\ jobs[j].pc = "range"
    /\ hubSets[jobs[j].ref] \ jobs[j].visited = {}
    /\ jobs' = [jobs EXCEPT ![j] = Returned(@)]
    /\ UNCHANGED <<hubClients, hubSets, handlers, cloneVars, writerVars, unitVars>>

GoCancelEnds(id) ==
    /\ \E j \in DOMAIN jobs :
          /\ jobs[j].id = id
          /\ jobs[j].pc = "select"
          /\ jobs' = [jobs EXCEPT ![j].queue = <<GoDone(j, id)>>, ![j].pc = "publish"]
    /\ UNCHANGED <<hubClients, hubSets, handlers, cloneVars, writerVars, unitVars>>

\* POST /git/clone/cancel: the mux of main.go has no such route, the request falls
\* to the pattern "/" and is answered with the index page
GoCancel(id) ==
    /\ jobs # <<>>
    /\ UNCHANGED vars

InitServer ==
    /\ hubClients = <<>>
    /\ hubSets = <<>>
    /\ handlers = <<>>
    /\ jobs = <<>>

----------------------------------------------------------------------------
(* main.go: memoryStore.  add and list hold s.mu for their whole body, so  *)
(* each is one step.  An event of the model is its number in the order of  *)
(* the add calls together with a body.                                     *)

Bodies == {"x", "y"}

\* no store has been made yet
InitStore ==
    store = [made |-> FALSE, max |-> 0, events |-> <<>>, added |-> <<>>,
             out |-> <<>>, outAt |-> 0, lists |-> 0]

\* newMemoryStore(max)
newMemoryStore(max) ==
    /\ ~store.made
    /\ store' = [store EXCEPT !.made = TRUE, !.max = max]
    /\ UNCHANGED <<injects, editor, cloneVars, writerVars, serverVars>>

\* copy(dst, src): the first Min(len) elements of dst become those of src
copy(dst, src) ==
    [i \in 1..Len(dst) |-> IF i <= Len(src) THEN src[i] ELSE dst[i]]

storeAddAppend(events, max, ev) == Append(events, ev)

\* the body of memoryStore.add on s.events
storeAdd(events, max, ev) ==
    IF Len(events) = max
    THEN [copy(events, Tail(events)) EXCEPT ![Len(events)] = ev]
    ELSE Append(events, ev)

\* memoryStore.add(ev)
StoreAdd(body) ==
    /\ store.made
    /\ Len(store.added) < StoreAdds
    /\ LET ev == [id |-> Len(store.added) + 1, body |-> body]
       IN  store' = [store EXCEPT !.events = storeAdd(@, store.max, ev),
                                  !.added = Append(@, ev)]
    /\ UNCHANGED <<injects, editor, cloneVars, writerVars, serverVars>>

\* memoryStore.list(): out is what the last call returned
StoreList ==
    /\ store.made
    /\ store.lists <= Len(store.added)
    /\ store' = [store EXCEPT !.out = copy([i \in 1..Len(store.events) |-> 0], store.events),
                              !.outAt = Len(store.added), !.lists = @ + 1]
    /\ UNCHANGED <<injects, editor, cloneVars, writerVars, serverVars>>

NextStore ==
    \/ \E max \in 1..StoreMax : newMemoryStore(max)
    \/ \E body \in Bodies : StoreAdd(body)
    \/ StoreList

----------------------------------------------------------------------------
(* git.js: POST /git/:id/inject.  A request is a record: raw is the length *)
(* of the body collected, done and tooBig are the handler's variables,     *)
(* receives and answers count the calls of node.receive and of res.json /  *)
(* res.sendStatus, delivered counts the answers written while the socket   *)
(* was there.  st is where the request stream is: "reading", "ended",      *)
(* "destroyed" (req.destroy() was called), "closed" (no event will come).  *)

InitInject == injects = <<>>

\* the bodies a client sends: what JSON.parse makes of them
BodyKinds == {"payload", "object", "invalid"}

\* POST /git/:id/inject up to the registration of the listeners
InjectPost(id) ==
    /\ Len(injects) < InjectPosts
    /\ injects' = Append(injects,
          IF getNode(id)
          THEN [id |-> id, st |-> "reading", raw |-> 0, chunks |-> 0, tooBig |-> FALSE,
                done |-> FALSE, receives |-> 0, answers |-> 0, delivered |-> 0,
                status |-> 0, payload |-> "none"]
          ELSE [id |-> id, st |-> "closed", raw |-> 0, chunks |-> 0, tooBig |-> FALSE,
                done |-> FALSE, receives |-> 0, answers |-> 1, delivered |-> 1,
                status |-> 404, payload |-> "none"])
    /\ UNCHANGED <<store, editor, cloneVars, writerVars, serverVars>>

\* endOK(obj) on request record r; the socket of a destroyed request takes nothing
endOK(r, kind) ==
    IF r.done THEN r
    ELSE [r EXCEPT !.done = TRUE,
                   !.payload = IF kind = "payload" THEN "custom" ELSE "default",
                   !.receives = @ + 1, !.answers = @ + 1, !.status = 200,
                   !.delivered = IF r.st = "destroyed" THEN @ ELSE @ + 1]

\* req.on('data'): a chunk of len characters
InjectData(i, len) ==
    /\ injects[i].st = "reading"
    /\ injects[i].chunks < InjectChunks
    /\ LET raw == injects[i].raw + len
       IN  injects' = [injects EXCEPT ![i].raw = raw, ![i].chunks = @ + 1,
                          ![i].tooBig = IF raw > InjectCap THEN TRUE ELSE @,
                          ![i].st = IF raw > InjectCap THEN "destroyed" ELSE @]
    /\ UNCHANGED <<store, editor, cloneVars, writerVars, serverVars>>

\* req.on('end'): the body is complete; kind is what JSON.parse(raw) gives, and
\* {} stands in when the body is too big, empty or not JSON
InjectEnd(i, kind) ==
    /\ injects[i].st = "reading"
    /\ injects[i].raw = 0 => kind = "object"
    /\ LET r == injects[i]
           obj == IF r.tooBig \/ r.raw = 0 \/ kind = "invalid" THEN "object" ELSE kind
       IN  injects' = [injects EXCEPT ![i] = [endOK(r, obj) EXCEPT !.st = "ended"]]
    /\ UNCHANGED <<store, editor, cloneVars, writerVars, serverVars>>

\* req.on('error'): the stream of a request that the client gave up reports an
\* error; that of a request the handler destroyed may do so, depending on the
\* version of Node.js
InjectError(i) ==
    /\ injects[i].st \in {"reading", "destroyed"}
    /\ injects' = [injects EXCEPT
          ![i] = [endOK([injects[i] EXCEPT !.st = "destroyed"], "object")
                     EXCEPT !.st = "closed"]]
    /\ UNCHANGED <<store, editor, cloneVars, writerVars, serverVars>>

\* the stream of a request emits 'close' and nothing else: after 'end', and after
\* req.destroy(), which was called without an error
InjectClose(i) ==
    /\ injects[i].st \in {"ended", "destroyed"}
    /\ injects' = [injects EXCEPT ![i].st = "closed"]
    /\ UNCHANGED <<store, editor, cloneVars, writerVars, serverVars>>

NextInject ==
    \/ \E id \in NodeIds : InjectPost(id)
    \/ \E i \in DOMAIN injects, len \in 1..InjectCap : InjectData(i, len)
    \/ \E i \in DOMAIN injects, kind \in BodyKinds : InjectEnd(i, kind)
    \/ \E i \in DOMAIN injects : InjectError(i)
    \/ \E i \in DOMAIN injects : InjectClose(i)

----------------------------------------------------------------------------
(* The link guards of the editor: part_003 (V2) and settings.js (V1).  The  *)
(* editor keeps its links in an array; a link is a record with a number of *)
(* its own (two links between the same nodes are two objects).  hist is    *)
(* RED.history.                                                            *)

\* the nodes of the diagram: RED.nodes.node(id) finds these ids and no other
NodeTable ==
    [g1 |-> [type |-> "chaos-garbage-collector", z |-> "tab1"],
     g2 |-> [type |-> "chaos-garbage-collector", z |-> "tab1"],
     c1 |-> [type |-> "chaos-create-network", z |-> "tab1"],
     c2 |-> [type |-> "chaos-create-network", z |-> "tab2"],
     p1 |-> [type |-> "git-password", z |-> "tab1"]]

\* the ids a link can name: those of the nodes and the id of a port that
\* RED.nodes.node does not resolve
EndIds == DOMAIN NodeTable \cup {"port"}

\* LINK_POLICY.pairs
LinkPairs ==
    [x \in {"git-clone-branch", "git-password", "chaos-garbage-collector"} |->
        CASE x = "git-clone-branch" -> {"git-password"}
          [] x = "git-password" -> {"chaos-garbage-collector", "debug"}
          [] x = "chaos-garbage-collector" -> {"chaos-create-network"}]

\* LINK_POLICY.maxInByTargetType
maxInByTargetType == [x \in {"chaos-create-network"} |-> 1]

\* LINK_POLICY.maxOutBySourceType
maxOutBySourceType == [x \in {"chaos-create-network"} |-> 1]

\* LINK_POLICY.sameTabOnly
sameTabOnly == TRUE

\* LINK_POLICY.behavior.onMaxOut
onMaxOut == "reject-new"

onMaxInKeepLast == "keep-last"

\* LINK_POLICY.behavior.onMaxIn
onMaxIn == "reject-new"

InitEditor == editor = [guard |-> "none", links |-> <<>>, hist |-> <<>>, made |-> 0]

\* RED.nodes.removeLink(link) on the array of links
removeLink(links, link) == SelectSeq(links, LAMBDA l : l # link)

\* removeLinkWithHistory(link, reason)
removeLinkWithHistory(d, link) ==
    [d EXCEPT !.hist = Append(@, [t |-> "delete", links |-> <<link>>]),
              !.links = removeLink(@, link)]

\* the keep-last branch: history entry {t: "multi"} and a removeLink for each
removeOlder(d, toRemove) ==
    IF toRemove = <<>> THEN d
    ELSE [d EXCEPT !.hist = Append(@, [t |-> "multi", links |-> toRemove]),
                   !.links = SelectSeq(@, LAMBDA l :
                                 \A i \in DOMAIN toRemove : toRemove[i] # l)]

getOutboundLinks(d, sourceId) == SelectSeq(d.links, LAMBDA l : l.source = sourceId)

getInboundLinks(d, targetId) == SelectSeq(d.links, LAMBDA l : l.target = targetId)

isAllowedPairAny(srcType, dstType) == TRUE

\* isAllowedPair of part_003
isAllowedPair(srcType, dstType) ==
    IF srcType \in DOMAIN LinkPairs THEN dstType \in LinkPairs[srcType]
    ELSE "*" \in DOMAIN LinkPairs /\ dstType \in LinkPairs["*"]

\* all.filter(l => l !== newLink).slice(0, all.length - lim)
Older(all, newLink, lim) ==
    LET rest == SelectSeq(all, LAMBDA l : l # newLink)
    IN  SubSeq(rest, 1, Min(Len(rest), Len(all) - lim))

enforceMaxOut(d, src, newLink) ==
    IF src.type \notin DOMAIN maxOutBySourceType THEN d
    ELSE LET lim == maxOutBySourceType[src.type]
             all == getOutboundLinks(d, newLink.source)
         IN  IF Len(all) <= lim THEN d
             ELSE IF onMaxOut = "reject-new" THEN removeLinkWithHistory(d, newLink)
             ELSE removeOlder(d, Older(all, newLink, lim))

enforceMaxIn(d, dst, newLink) ==
    IF dst.type \notin DOMAIN maxInByTargetType THEN d
    ELSE LET lim == maxInByTargetType[dst.type]
             all == getInboundLinks(d, newLink.target)
         IN  IF Len(all) <= lim THEN d
             ELSE IF onMaxIn = "reject-new" THEN removeLinkWithHistory(d, newLink)
             ELSE removeOlder(d, Older(all, newLink, lim))

\* RED.events.on("links:add", ...) of part_003
guardV2(d, link) ==
    IF link.source \notin DOMAIN NodeTable \/ link.target \notin DOMAIN NodeTable THEN d
    ELSE LET src == NodeTable[link.source]
             dst == NodeTable[link.target]
         IN  IF sameTabOnly /\ src.z # dst.z THEN removeLinkWithHistory(d, link)
             ELSE IF ~isAllowedPair(src.type, dst.type) THEN removeLinkWithHistory(d, link)
             ELSE enforceMaxIn(enforceMaxOut(d, src, link), dst, link)

\* isAllowedPair of settings.js
isAllowedPairV1(srcType, dstType) ==
    srcType = "chaos-garbage-collector" /\ dstType = "chaos-create-network"

\* RED.events.on("links:add", ...) of settings.js
guardV1(d, link) ==
    IF link.source \notin DOMAIN NodeTable \/ link.target \notin DOMAIN NodeTable THEN d
    ELSE LET src == NodeTable[link.source]
             dst == NodeTable[link.target]
         IN  IF src.z # dst.z THEN removeLinkWithHistory(d, link)
             ELSE IF ~isAllowedPairV1(src.type, dst.type) THEN removeLinkWithHistory(d, link)
             ELSE IF Len(getInboundLinks(d, link.target)) > 1
             THEN removeOlder(d, SelectSeq(getInboundLinks(d, link.target),
                                           LAMBDA l : l # link))
             ELSE d

\* the page of the editor loads a guard script, which registers its handler
GuardLoad(version) ==
    /\ editor.guard = "none"
    /\ editor' = [editor EXCEPT !.guard = version]
    /\ UNCHANGED <<store, injects, cloneVars, writerVars, serverVars>>

\* the editor adds a link to its array (RED.nodes.addLink) and emits links:add,
\* which runs the handler of the guard
LinksAdd(source, target) ==
    /\ editor.guard # "none"
    /\ editor.made < GuardEvents
    /\ LET link == [n |-> editor.made + 1, source |-> source, target |-> target]
           d == [editor EXCEPT !.links = Append(@, link), !.made = @ + 1]
       IN  editor' = IF editor.guard = "V2" THEN guardV2(d, link) ELSE guardV1(d, link)
    /\ UNCHANGED <<store, injects, cloneVars, writerVars, serverVars>>

NextGuard ==
    \/ GuardLoad("V2")
    \/ \E source \in EndIds, target \in EndIds : LinksAdd(source, target)

NextGuards ==
    \/ \E version \in {"V1", "V2"} : GuardLoad(version)
    \/ \E source \in EndIds, target \in EndIds : LinksAdd(source, target)

----------------------------------------------------------------------------
(* The specifications.                                                     *)

StartRequests(lim) == [nodeId : lim.nodes \cup {""}, repo : Repos]

NextOf(lim) ==
    \/ \E req \in StartRequests(lim) : StartRejected(lim, req)
    \/ \E req \in StartRequests(lim) : StartSpawn(lim, req)
    \/ \E c \in DOMAIN children, stream \in lim.streams : ChildData(lim, c, stream)
    \/ \E c \in DOMAIN children : ChildExit(c)
    \/ \E c \in DOMAIN children : ChildClose(c)
    \/ \E nodeId \in lim.nodes \cup {""} : CancelNotFound(lim, nodeId)
    \/ \E nodeId \in lim.nodes : CancelKill(lim, nodeId)
    \/ \E nodeId \in lim.nodes : Subscribe(lim, nodeId)
    \/ \E res \in DOMAIN conns : Heartbeat(lim, res)
    \/ \E res \in DOMAIN conns : ReqClose(res)

Init == InitClone /\ InitWriterIdle /\ InitServer /\ InitStore /\ InitInject /\ InitEditor

Next == NextOf(LifeLimits)

Spec == Init /\ [][Next]_vars

NextRing == NextOf(RingLimits)

SpecRing == Init /\ [][NextRing]_vars

NextHub ==
    \/ NextOf(HubLimits)
    \/ \E res \in DOMAIN conns : SocketDown(res)

SpecHub == Init /\ [][NextHub]_vars

\* process.nextTick runs the 'error' event of a failed spawn before any other event
ErrorPending == \E c \in DOMAIN children : children[c].st = "failing"

NextApi ==
    /\ hostUp
    /\ \/ ~ErrorPending /\ NextOf(ApiLimits)
       \/ \E c \in DOMAIN children : SpawnError(c)

SpecApi == Init /\ [][NextApi]_vars

NextOutcome ==
    \/ NextOf(OutcomeLimits)
    \/ \E c \in DOMAIN children : ChildKilled(c)

SpecOutcome == Init /\ [][NextOutcome]_vars

NextServer ==
    \/ \E id \in GoStartIds \ {""} : StreamOpen(id)
    \/ \E c \in DOMAIN handlers : StreamHello(c)
    \/ \E c \in DOMAIN handlers : StreamPing(c)
    \/ \E c \in DOMAIN handlers : StreamDone(c)
    \/ \E c \in DOMAIN handlers : PeerStalls(c)
    \/ \E id \in GoStartIds : GoStartRejected(id)
    \/ \E id \in GoStartIds : GoStart(id)
    \/ \E j \in DOMAIN jobs : JobFirst(j)
    \/ \E j \in DOMAIN jobs : JobTick(j)
    \/ \E j \in DOMAIN jobs : JobTimeout(j)
    \/ \E j \in DOMAIN jobs : BroadcastBegin(j)
    \/ \E j \in DOMAIN jobs, c \in DOMAIN handlers : BroadcastNext(j, c)
    \/ \E j \in DOMAIN jobs : BroadcastWrite(j)
    \/ \E j \in DOMAIN jobs : BroadcastReturn(j)

SpecServer == Init /\ [][NextServer]_vars

\* connections accepted + jobs started + ticks the jobs have had
RECURSIVE TicksOf(_)
TicksOf(js) == IF js = <<>> THEN 0 ELSE Head(js).step + TicksOf(Tail(js))

JobBudget == Len(handlers) + Len(jobs) + TicksOf(jobs)

\* the jobs with subscribers that read, and the requests a client can make
NextJob ==
    \/ \E id \in GoStartIds \ {""} : JobBudget < JobEvents /\ StreamOpen(id)
    \/ \E c \in DOMAIN handlers : StreamHello(c)
    \/ \E c \in DOMAIN handlers : StreamDone(c)
    \/ \E id \in GoStartIds : GoStartRejected(id)
    \/ \E id \in GoStartIds : JobBudget < JobEvents /\ GoStart(id)
    \/ \E id \in GoStartIds : GoCancel(id)
    \/ \E j \in DOMAIN jobs : JobFirst(j)
    \/ \E j \in DOMAIN jobs : JobBudget < JobEvents /\ JobTick(j)
    \/ \E j \in DOMAIN jobs : JobTimeout(j)
    \/ \E j \in DOMAIN jobs : BroadcastBegin(j)
    \/ \E j \in DOMAIN jobs, c \in DOMAIN handlers : BroadcastNext(j, c)
    \/ \E j \in DOMAIN jobs : BroadcastWrite(j)
    \/ \E j \in DOMAIN jobs : BroadcastReturn(j)

SpecJob == Init /\ [][NextJob]_vars

\* a step of the goroutine of job j
JobStep(j) ==
    /\ j \in DOMAIN jobs
    /\ \/ JobFirst(j)
       \/ JobBudget < JobEvents /\ JobTick(j)
       \/ JobTimeout(j)
       \/ BroadcastBegin(j)
       \/ \E c \in DOMAIN handlers : BroadcastNext(j, c)
       \/ BroadcastWrite(j)
       \/ BroadcastReturn(j)

\* a step of the goroutine of connection c that waits for nothing but the
\* scheduler (the end of the connection is up to the peer)
HandlerStep(c) ==
    /\ c \in DOMAIN handlers
    /\ StreamHello(c)

NextFair ==
    \/ NextJob
    \/ \E c \in DOMAIN handlers : PeerStalls(c)

\* the scheduler of Go runs every goroutine that can run; a peer owes nothing
SpecFair ==
    /\ Init
    /\ [][NextFair]_vars
    /\ \A j \in 1..SrvJobs : WF_vars(JobStep(j))
    /\ \A c \in 1..SrvClients : WF_vars(HandlerStep(c))

NextWriter == \E p \in Chunks : Write(p)

SpecWriter == Init /\ [][NextWriter]_vars

NextPair == \E stream \in StdStreams, p \in PairChunks : PairWrite(stream, p)

SpecPair == Init /\ [][NextPair]_vars

\* the subscriber maps of both programs: connections open and end
NextSets ==
    \/ \E nodeId \in NodeIds : Subscribe(SetsLimits, nodeId)
    \/ \E res \in DOMAIN conns : ReqClose(res)
    \/ \E id \in NodeIds : Len(handlers) < SetsClients /\ StreamOpen(id)
    \/ \E c \in DOMAIN handlers : StreamHello(c)
    \/ \E c \in DOMAIN handlers : StreamDone(c)

SpecSets == Init /\ [][NextSets]_vars

SpecStore == Init /\ [][NextStore]_vars

\* the link guard of part_003
SpecGuard == Init /\ [][NextGuard]_vars

\* either link guard
SpecGuards == Init /\ [][NextGuards]_vars

\* every event that can come for a request does come
SpecInject == Init /\ [][NextInject]_vars /\ WF_vars(NextInject)

----------------------------------------------------------------------------
(* What the claims speak about.                                            *)

IsLog(f) == f.event = "message" /\ f.data.type = "log"

IsDone(f) == f.event = "message" /\ f.data.type = "done"

IsLogPayload(p) == p.type = "log"

Formatted(ps) == [i \in 1..Len(ps) |-> Format(ps[i].stream, ps[i].line)]

\* the stream-data lines published for a node so far, as the ring buffer stores them
LinesOf(nodeId) == Formatted(SelectSeq(pubLog[nodeId], IsLogPayload))

\* how many of them existed when connection res attached
LinesBefore(res) ==
    Len(SelectSeq(SubSeq(pubLog[conns[res].node], 1, conns[res].at), IsLogPayload))

\* the history carried by the bootstrap frame of connection res
BootOf(res) == conns[res].wire[1].data.hist

\* the log lines written live to connection res
LiveOf(res) ==
    LET fs == SelectSeq(conns[res].wire, IsLog)
    IN  Formatted([i \in 1..Len(fs) |-> fs[i].data])

DoneCount(c) ==
    LET mine(p) == p.type = "done" /\ p.run = c
    IN  Len(SelectSeq(pubLog[children[c].node], mine))

RunsOpen(nodeId) ==
    {c \in DOMAIN children : children[c].node = nodeId /\ children[c].st # "closed"}

RECURSIVE Flatten(_)
Flatten(ss) == IF ss = <<>> THEN <<>> ELSE Head(ss) \o Flatten(Tail(ss))

\* the "\n"-terminated substrings of data, terminator included
RECURSIVE TerminatedLines(_)
TerminatedLines(data) ==
    LET i == IndexLF(data, 1)
    IN  IF i = 0 THEN <<>>
        ELSE <<SubSeq(data, 1, i)>> \o TerminatedLines(SubSeq(data, i + 1, Len(data)))

\* what follows the last "\n" of data
RECURSIVE Unterminated(_)
Unterminated(data) ==
    LET i == IndexLF(data, 1)
    IN  IF i = 0 THEN data ELSE Unterminated(SubSeq(data, i + 1, Len(data)))

----------------------------------------------------------------------------
(* The claims.                                                             *)

\* C1 (as claimed): a start for a node id whose earlier run has not ended spawns
\* nothing, so a node id never has two runs that have not ended, and the registry
\* entry refers to the one there is.
C1_AtMostOneActiveRun ==
    \A nodeId \in NodeIds :
        /\ Cardinality(RunsOpen(nodeId)) <= 1
        /\ \A c \in RunsOpen(nodeId) : nodeId \in DOMAIN procs /\ procs[nodeId] = c

\* C2: a run has published exactly one done event once its operation has ended
\* (its close handler ran), and none before.
C2_ExactlyOneDone ==
    \A c \in DOMAIN children :
        DoneCount(c) = IF children[c].st = "closed" THEN 1 ELSE 0

C2_Witness ==
    \E c \in DOMAIN children, d \in DOMAIN children :
        /\ c # d
        /\ children[c].node = children[d].node
        /\ children[c].st = "closed" /\ children[d].st = "closed"
        /\ children[d].sig

\* C3 (as claimed): on every connection, no log event follows a done event.
C3_DoneIsLastForJob ==
    \A res \in DOMAIN conns :
        \A i \in DOMAIN conns[res].wire, j \in DOMAIN conns[res].wire :
            i < j => ~(IsDone(conns[res].wire[i]) /\ IsLog(conns[res].wire[j]))

\* C3 (amended): on every connection, no log event of a run follows the done event
\* of that same run.
C3_DoneIsLastForRun ==
    \A res \in DOMAIN conns :
        \A i \in DOMAIN conns[res].wire, j \in DOMAIN conns[res].wire :
            i < j => ~( /\ IsDone(conns[res].wire[i])
                        /\ IsLog(conns[res].wire[j])
                        /\ conns[res].wire[i].data.run = conns[res].wire[j].data.run )

C3_Witness ==
    \E res \in DOMAIN conns :
        \E i \in DOMAIN conns[res].wire, j \in DOMAIN conns[res].wire :
            /\ i < j
            /\ IsDone(conns[res].wire[i])
            /\ IsLog(conns[res].wire[j])
            /\ children[conns[res].wire[i].data.run].st = "closed"

\* C4: a connection that attached when n lines existed got a bootstrap of at most
\* min(n, capacity) lines, the latest of those n, and its live lines are exactly the
\* lines n+1, n+2, ... in order; while it is attached none of them is missing.
C4_BootstrapThenLive ==
    \A res \in DOMAIN conns :
        LET all == LinesOf(conns[res].node)
            n == LinesBefore(res)
            boot == BootOf(res)
            live == LiveOf(res)
        IN  /\ Len(boot) <= Min(n, RingCap)
            /\ boot = SubSeq(all, n - Len(boot) + 1, n)
            /\ live = SubSeq(all, n + 1, n + Len(live))
            /\ conns[res].open => n + Len(live) = Len(all)

C4_Witness ==
    \E res \in DOMAIN conns :
        /\ LinesBefore(res) > RingCap
        /\ Len(LiveOf(res)) >= 1
        /\ conns[res].open

\* C5: whenever a log line is written to a subscriber, the ring buffer of its node
\* already holds that line.
C5_AppendBeforePublish == ringMiss = {}

C5_Witness ==
    \E res \in DOMAIN conns :
        /\ Len(LiveOf(res)) >= 1
        /\ LiveOf(res)[1] \in Range(RingOf(Cur, conns[res].node))

\* C6 (as claimed): the lines emitted are the "\n"-terminated substrings of the
\* bytes written, one per terminator, in order.
C6_LineFraming == wout = TerminatedLines(Flatten(wchunks))

\* C7 (as claimed): the buffer holds what follows the last terminator written, and
\* the chunks "a\n", "b", "c\n" give the lines "a" and "bc".
C7_FragmentRetained ==
    /\ wbuf = Unterminated(Flatten(wchunks))
    /\ wchunks = << <<"a", "\n">>, <<"b">>, <<"c", "\n">> >>
           => wout = << <<"a", "\n">>, <<"b", "c", "\n">> >>

\* C8 (as claimed): the emitted lines followed by the retained buffer are the bytes
\* written.
C8_NoByteLostOrRepeated == Flatten(wout) \o wbuf = Flatten(wchunks)

\* C9: a ring buffer never holds more than its capacity, and an append changes it
\* by adding the line at the end, dropping the first entry when it was full.
C9_RingBoundedFifo ==
    /\ [](\A nodeId \in DOMAIN buffers : Len(buffers[nodeId]) <= RingCap)
    /\ [][\A nodeId \in DOMAIN buffers' :
            LET old == RingOf(Cur, nodeId)
                new == buffers'[nodeId]
            IN  new # old =>
                  IF Len(old) = RingCap
                  THEN Len(new) = RingCap /\ SubSeq(new, 1, RingCap - 1) = Tail(old)
                  ELSE Len(new) = Len(old) + 1 /\ SubSeq(new, 1, Len(old)) = old]_vars

C9_Witness ==
    \E nodeId \in DOMAIN buffers :
        /\ Len(buffers[nodeId]) = RingCap
        /\ Len(LinesOf(nodeId)) > RingCap + 1

\* C10: the bootstrap of a connection that attached when n lines existed is the
\* latest min(n, capacity) of them, oldest first.
C10_BootstrapIsLatestLines ==
    \A res \in DOMAIN conns :
        LET n == LinesBefore(res)
        IN  BootOf(res) = LastN(SubSeq(LinesOf(conns[res].node), 1, n), Min(n, RingCap))

C10_Witness ==
    \E res \in DOMAIN conns :
        /\ LinesBefore(res) > RingCap
        /\ Len(BootOf(res)) = RingCap

----------------------------------------------------------------------------
(* The broadcast hub.                                                      *)

SubscribersOf(nodeId) == IF nodeId \in DOMAIN streams THEN streams[nodeId] ELSE {}

\* the payload a step published for nodeId
PublishedIn(nodeId) == pubLog'[nodeId][Len(pubLog'[nodeId])]

\* C11: a publication for a job id writes the event exactly once to every handle
\* that is subscribed to that id when it is made and to no other handle, and it
\* leaves the hub's sets as they are; with no subscriber nothing is written at all.
C11_PublishToSubscribersOnly ==
    [][\A nodeId \in NodeIds :
          pubLog'[nodeId] # pubLog[nodeId] =>
              /\ pubLog'[nodeId] = Append(pubLog[nodeId], PublishedIn(nodeId))
              /\ streams' = streams
              /\ DOMAIN conns' = DOMAIN conns
              /\ \A res \in DOMAIN conns :
                    conns'[res].wire =
                        IF res \in SubscribersOf(nodeId)
                        THEN Append(conns[res].wire, DataFrame(PublishedIn(nodeId)))
                        ELSE conns[res].wire
              /\ SubscribersOf(nodeId) = {} => conns' = conns]_vars

C11_Witness ==
    \E r1 \in DOMAIN conns, r2 \in DOMAIN conns :
        /\ conns[r1].node # conns[r2].node
        /\ conns[r1].open /\ conns[r2].open
        /\ LiveOf(r1) # <<>>
        /\ LiveOf(r2) = <<>>

\* the handle is in the hub's set of its node id
Registered(res) == res \in SubscribersOf(conns[res].node)

\* the writes to a handle that failed: those made after its socket went down
FailedWrites(res) ==
    IF conns[res].up THEN 0 ELSE Len(conns[res].wire) - conns[res].cut

IsLive(f) == f.event = "message" /\ f.data.type \in {"log", "done"}

----------------------------------------------------------------------------
(* The requests and their responses.                                       *)

\* C16: cancel for a job id none of whose runs is still open (every run had its
\* terminal event, or none was ever started) is answered 404 and changes nothing:
\* no process is signalled, nothing is published, no node is notified, each time
\* it is made.
C16_CancelOfTerminalJob ==
    [][(reply'.op = "cancel" /\ RunsOpen(reply'.nodeId) = {}) =>
          /\ reply'.status = 404
          /\ UNCHANGED <<children, procs, pubLog, nodeOut, conns, streams, buffers>>]_vars

C16_Witness ==
    /\ reply.op = "cancel"
    /\ reply.status = 404
    /\ \E c \in DOMAIN children :
          children[c].node = reply.nodeId /\ children[c].st = "closed"

\* the messages a node was sent that follow the terminal event of run c
NotifiedFor(c) ==
    LET n == children[c].node
    IN  {i \in DOMAIN nodeOut[n].sent :
            /\ nodeOut[n].sent[i].at \in DOMAIN pubLog[n]
            /\ pubLog[n][nodeOut[n].sent[i].at].run = c}

\* C17: from the moment a cancel has signalled a running process until that
\* process has exited, no terminal event of the run is published, its node is not
\* notified and the registry still holds the entry of the run.
C17_NothingTerminalBeforeExit ==
    \A c \in DOMAIN children :
        (children[c].sig /\ children[c].st = "alive") =>
            /\ DoneCount(c) = 0
            /\ NotifiedFor(c) = {}
            /\ children[c].node \in DOMAIN procs

\* C18: a run whose process could not be spawned has exactly one terminal event,
\* has no registry entry, and leaves the runtime running.
C18_SpawnFailureReported ==
    \A c \in DOMAIN children :
        children[c].st = "errored" =>
            /\ hostUp
            /\ DoneCount(c) = 1
            /\ children[c].node \notin DOMAIN procs

\* C19: every message a node is sent directly follows the publication of a
\* terminal event of that node id and carries its exit code and target; a run of
\* a deployed node has exactly one such message once it is closed and none before.
C19_NotifiedOnceAfterDone ==
    /\ \A n \in NodeIds : \A i \in DOMAIN nodeOut[n].sent :
          LET m == nodeOut[n].sent[i]
          IN  /\ m.at \in DOMAIN pubLog[n]
              /\ pubLog[n][m.at].type = "done"
              /\ pubLog[n][m.at].code = m.code
              /\ pubLog[n][m.at].target = m.target
              /\ \E c \in DOMAIN children : i \in NotifiedFor(c)
    /\ \A c \in DOMAIN children :
          Cardinality(NotifiedFor(c)) =
              IF children[c].st = "closed" /\ getNode(children[c].node) THEN 1 ELSE 0

C19_Witness ==
    \E c \in DOMAIN children, d \in DOMAIN children :
        /\ c # d
        /\ children[c].node = children[d].node
        /\ children[c].st = "closed" /\ children[d].st = "closed"
        /\ children[c].code # children[d].code
        /\ Len(nodeOut[children[c].node].sent) = 2

\* C20: a start request without nodeId, without repo, or with a repo the URL guard
\* does not accept (an unreadable body counts as an empty one) is answered 400 and
\* changes nothing: no process, no registry entry, no ring buffer, no event.
C20_InvalidStartCreatesNothing ==
    [][(reply'.op = "start"
          /\ (reply'.nodeId = "" \/ reply'.repo \notin {"https://host/r.git"})) =>
          /\ reply'.status = 400
          /\ UNCHANGED <<streams, buffers, procs, children, conns, pubLog, nodeOut,
                         ringMiss>>]_vars

C20_Witness ==
    /\ reply.op = "start"
    /\ reply.status = 400
    /\ reply.nodeId # ""
    /\ reply.repo = "ftp://host/r"
    /\ \E c \in DOMAIN children : children[c].st = "alive"

----------------------------------------------------------------------------
(* The hub of main.go under interleaving.                                  *)

\* the handlers a broadcast in its loop has still to write to
Awaiting(j) == hubSets[jobs[j].ref] \ (jobs[j].visited \cup {jobs[j].cur})

\* C13: a publication never waits in the write to a subscriber that does not
\* take the data while another subscriber of the job has not been written the
\* event yet; the job that publishes is not held up by that subscriber.
C13_NoHeadOfLineBlocking ==
    \A j \in DOMAIN jobs :
        (jobs[j].pc = "write" /\ handlers[jobs[j].cur].stalled) => Awaiting(j) = {}

\* C14: the end of a subscriber's connection takes that handle out of the hub's
\* set and leaves the jobs and every other subscriber as they are, and from then
\* on nothing is written to the handle.
C14_ClosedSubscriberLeftAlone ==
    [][\A c \in DOMAIN handlers :
          /\ (handlers[c].pc # "gone" /\ handlers'[c].pc = "gone") =>
                /\ \A k \in DOMAIN hubSets' : c \notin hubSets'[k]
                /\ \A k \in DOMAIN hubSets : hubSets'[k] = hubSets[k] \ {c}
                /\ \A d \in DOMAIN handlers \ {c} : handlers'[d] = handlers[d]
                /\ jobs' = jobs
          /\ handlers[c].pc = "gone" => handlers'[c].wire = handlers[c].wire]_vars

IsBootstrap(f) == f.event = "message" /\ f.data.type = "bootstrap"

IsHello(f) == f.event = "message" /\ f.data.type = "hello"

\* C15: on every connection a live event (log or done) comes after a bootstrap
\* event and a hello event, in that order.
C15_BootstrapHelloThenLive ==
    \A c \in DOMAIN handlers : \A i \in DOMAIN handlers[c].wire :
        IsLive(handlers[c].wire[i]) =>
            \E b \in 1..(i - 1), h \in 1..(i - 1) :
                /\ b < h
                /\ IsBootstrap(handlers[c].wire[b])
                /\ IsHello(handlers[c].wire[h])

----------------------------------------------------------------------------
(* The outcome of a run.                                                   *)

\* the terminal events published for run c
DonesOf(c) ==
    LET mine(p) == p.type = "done" /\ p.run = c
    IN  SelectSeq(pubLog[children[c].node], mine)

----------------------------------------------------------------------------
(* Order of delivery.                                                      *)

\* the position of line in the sequence s, 0 when it is not there
PosIn(s, line) ==
    IF \E i \in DOMAIN s : s[i] = line
    THEN CHOOSE i \in DOMAIN s : s[i] = line
    ELSE 0

\* C22: the log lines written to a subscriber are in the order in which they were
\* appended to the ring buffer of its job: two lines that are both in the buffer
\* were delivered in the order the buffer has them, and the latest lines of an
\* attached subscriber are the latest entries of the buffer.
C22_DeliveredInAppendOrder ==
    \A res \in DOMAIN conns :
        LET live == LiveOf(res)
            ring == RingOf(Cur, conns[res].node)
            k == Min(Len(live), Len(ring))
        IN  /\ \A i \in DOMAIN live, j \in DOMAIN live :
                  (i < j /\ PosIn(ring, live[i]) > 0 /\ PosIn(ring, live[j]) > 0) =>
                      PosIn(ring, live[i]) < PosIn(ring, live[j])
            /\ conns[res].open => LastN(live, k) = LastN(ring, k)

C22_Witness ==
    \E res \in DOMAIN conns :
        /\ conns[res].open
        /\ Len(LiveOf(res)) > RingCap
        /\ Len(RingOf(Cur, conns[res].node)) = RingCap
        /\ \E i \in DOMAIN conns[res].wire, j \in DOMAIN conns[res].wire :
              /\ IsLog(conns[res].wire[i]) /\ IsLog(conns[res].wire[j])
              /\ conns[res].wire[i].data.stream # conns[res].wire[j].data.stream

----------------------------------------------------------------------------
(* What the registry refers to.                                            *)

\* C23 as stated: every entry of the registry refers to an operation that has
\* not exited.
C23_EntryNeverExited ==
    \A nodeId \in DOMAIN procs : children[procs[nodeId]].st = "alive"

\* C23: every entry of the registry refers to a run whose terminal event has not
\* been published (its process runs, or has exited with its pipes still open),
\* and no run that has had its terminal event is referred to by the registry.
C23_EntryNeverTerminated ==
    /\ \A nodeId \in DOMAIN procs :
          /\ children[procs[nodeId]].node = nodeId
          /\ children[procs[nodeId]].st \in {"alive", "exited"}
          /\ Len(DonesOf(procs[nodeId])) = 0
    /\ \A c \in DOMAIN children :
          children[c].st = "closed" =>
              /\ Len(DonesOf(c)) = 1
              /\ \A nodeId \in DOMAIN procs : procs[nodeId] # c

C23_Witness ==
    /\ \E nodeId \in DOMAIN procs : children[procs[nodeId]].st = "exited"
    /\ \E c \in DOMAIN children :
          /\ children[c].st = "closed"
          /\ children[c].code # <<0>>
          /\ children[c].node \notin DOMAIN procs

----------------------------------------------------------------------------
(* Job ids do not touch each other.                                        *)

\* the handles attached to nodeId, whether or not they are still registered
HandlesOf(nodeId) == {res \in DOMAIN conns : conns[res].node = nodeId}

\* C24: a handle is registered under the job id it attached with and under no
\* other, from its attachment until its close handler has run.
C24_OneJobPerSubscriber ==
    \A res \in DOMAIN conns :
        /\ conns[res].open => Registered(res)
        /\ \A nodeId \in DOMAIN streams :
              res \in streams[nodeId] => nodeId = conns[res].node

\* C24: a step that appends to the ring buffer of job a or publishes an event for
\* it leaves the ring buffer and the subscriber set of every other job as they
\* were and writes nothing to a handle of another job; no step moves a handle to
\* another job id.
C24_OtherJobsUntouched ==
    [][/\ \A res \in DOMAIN conns : conns'[res].node = conns[res].node
       /\ \A a \in NodeIds, b \in NodeIds :
             (/\ a # b
              /\ \/ RingOf([buffers |-> buffers'], a) # RingOf([buffers |-> buffers], a)
                 \/ pubLog'[a] # pubLog[a]) =>
                 /\ RingOf([buffers |-> buffers'], b) = RingOf([buffers |-> buffers], b)
                 /\ pubLog'[b] = pubLog[b]
                 /\ (b \in DOMAIN streams') = (b \in DOMAIN streams)
                 /\ b \in DOMAIN streams => streams'[b] = streams[b]
                 /\ \A res \in HandlesOf(b) : conns'[res] = conns[res]]_vars

C24_Witness ==
    \E r1 \in DOMAIN conns, r2 \in DOMAIN conns :
        /\ conns[r1].node # conns[r2].node
        /\ Registered(r1) /\ Registered(r2)
        /\ RingOf(Cur, conns[r1].node) # <<>>
        /\ \E i \in DOMAIN conns[r1].wire : IsDone(conns[r1].wire[i])
        /\ \A i \in DOMAIN conns[r2].wire : ~IsLive(conns[r2].wire[i])

\* C24: both parts together
C24_JobsIsolated == []C24_OneJobPerSubscriber /\ C24_OtherJobsUntouched

----------------------------------------------------------------------------
(* What an event carries.                                                  *)

LogsOf(nodeId) == SelectSeq(pubLog[nodeId], IsLogPayload)

----------------------------------------------------------------------------
(* The lock of the hub.                                                    *)

\* the broadcast of job j is in its loop over a subscriber set
Iterating(j) == jobs[j].pc \in {"range", "write"}

\* C26: while a broadcast is iterating a job's subscriber set, no add and no
\* remove modifies that set.
C26_SetStableWhileIterated ==
    [][\A j \in DOMAIN jobs :
          Iterating(j) => hubSets'[jobs[j].ref] = hubSets[jobs[j].ref]]_vars

----------------------------------------------------------------------------
(* The two writers of a job.                                               *)

\* the chunks written to the writer of stream, in order
ChunksTo(stream) ==
    LET mine(e) == e.stream = stream
        sel == SelectSeq(pair.chunks, mine)
    IN  [i \in 1..Len(sel) |-> sel[i].p]

\* the lines the writer of stream handed to broadcast, in order
LinesFrom(stream) ==
    LET mine(e) == e.stream = stream
        sel == SelectSeq(pair.out, mine)
    IN  [i \in 1..Len(sel) |-> sel[i].line]

\* a writer that is given the chunks cs and nothing else
RECURSIVE WriterAlone(_)
WriterAlone(cs) ==
    IF cs = <<>> THEN [buf |-> <<>>, lines |-> <<>>]
    ELSE LET before == WriterAlone(SubSeq(cs, 1, Len(cs) - 1))
             r == sseWrite(before.buf, cs[Len(cs)])
         IN  [buf |-> r.buf, lines |-> before.lines \o r.lines]

\* C27: the pending bytes of each of the two writers of a job and the lines it
\* emits are those of a writer that is given that stream's chunks alone,
\* whatever is written to the other stream in between.
C27_SeparateBuffers ==
    \A stream \in StdStreams :
        LET alone == WriterAlone(ChunksTo(stream))
        IN  /\ pair.buf[stream] = alone.buf
            /\ LinesFrom(stream) = alone.lines

C27_Witness ==
    /\ Len(pair.chunks) = 3
    /\ pair.chunks[1].stream = "stdout"
    /\ pair.chunks[2].stream = "stderr"
    /\ pair.chunks[3].stream = "stdout"
    /\ WriterAlone(<<pair.chunks[1].p>>).buf # <<>>
    /\ pair.buf["stderr"] # <<>>
    /\ Len(LinesFrom("stdout")) > 1

----------------------------------------------------------------------------
(* The end of a simulated job.                                             *)

\* the done events on the wire of connection c
WireDones(c) == SelectSeq(handlers[c].wire, IsDone)

\* C28 as stated: every terminal event of a simulated job that reaches a
\* subscriber reports code 0.
C28_DoneReportsCodeZero ==
    \A c \in DOMAIN handlers : \A i \in DOMAIN WireDones(c) :
        /\ "code" \in DOMAIN WireDones(c)[i].data
        /\ WireDones(c)[i].data.code = 0

\* C28: a job hands a terminal event to broadcast only when its time is over, and
\* then one with Code 0, which the encoding leaves out: the done event on the
\* wire has the fields type, target and line and no code.  A job returns only
\* after that, and a cancel request changes nothing.
C28_DoneOnlyOnTimeout ==
    /\ [](\A j \in DOMAIN jobs :
            /\ \A i \in DOMAIN jobs[j].queue :
                  jobs[j].queue[i].type = "done" =>
                      /\ jobs[j].last
                      /\ jobs[j].queue[i].code = 0
            /\ jobs[j].pc = "returned" => jobs[j].last)
    /\ [](\A c \in DOMAIN handlers : \A i \in DOMAIN WireDones(c) :
            /\ DOMAIN WireDones(c)[i].data = {"type", "target", "line", "job"}
            /\ jobs[WireDones(c)[i].data.job].last
            /\ jobs[WireDones(c)[i].data.job].id = handlers[c].id)
    /\ [][\A j \in DOMAIN jobs :
            (jobs'[j].last /\ ~jobs[j].last) =>
                /\ jobs[j].pc = "select"
                /\ jobs'[j].queue = <<GoDone(j, jobs[j].id)>>]_vars

C28_Witness ==
    \E c \in DOMAIN handlers, j \in DOMAIN jobs :
        /\ Len(WireDones(c)) = 1
        /\ jobs[j].pc = "returned"
        /\ jobs[j].step > 0
        /\ WireDones(c)[1].data.job = j

----------------------------------------------------------------------------
(* The end of a job's goroutine.                                           *)

\* C29: every job that was started broadcasts its done event and its goroutine
\* returns.
C29_EveryJobReturns ==
    \A j \in 1..SrvJobs :
        (j \in DOMAIN jobs) ~> (j \in DOMAIN jobs /\ jobs[j].pc = "returned")

----------------------------------------------------------------------------
(* The registry while operations are alive.                                *)

\* C30: whenever an operation spawned for a node id is alive, the registry has
\* an entry for that id and the entry refers to an operation that is alive.
C30_AliveIsRegistered ==
    \A c \in DOMAIN children :
        children[c].st = "alive" =>
            /\ children[c].node \in DOMAIN procs
            /\ children[procs[children[c].node]].st = "alive"

----------------------------------------------------------------------------
(* Writes to a connection of main.go.                                      *)

\* C31: once the stream handler of a subscriber has removed it from the hub and
\* returned, no broadcast writes to that subscriber's connection.
C31_NoWriteAfterRemoval ==
    [][\A c \in DOMAIN handlers :
          (handlers[c].pc = "gone" /\ \A k \in DOMAIN hubSets : c \notin hubSets[k]) =>
              handlers'[c].wire = handlers[c].wire]_vars

\* the call of c.w.Write by the broadcast of job j for connection c has been made
\* and has not returned
WritingTo(j, c) == jobs[j].pc = "write" /\ jobs[j].cur = c

\* C32: at most one task at a time is writing to a connection: nothing is
\* written to a connection while the write of a broadcast to it is under way, and
\* no two broadcasts are in a write to the same connection.
C32_OneWriterPerConnection ==
    /\ [](\A c \in DOMAIN handlers : \A i \in DOMAIN jobs, j \in DOMAIN jobs :
            (WritingTo(i, c) /\ WritingTo(j, c)) => i = j)
    /\ [][\A c \in DOMAIN handlers : \A j \in DOMAIN jobs :
            (WritingTo(j, c) /\ jobs'[j] = jobs[j]) =>
                handlers'[c].wire = handlers[c].wire]_vars

----------------------------------------------------------------------------
(* The subscriber maps.                                                    *)

\* the set the hub of main.go has for id
HubSetOf(id) == IF id \in DOMAIN hubClients THEN hubSets[hubClients[id]] ELSE {}

\* ids and handles to try a removal with, known and unknown
RemoveIds == NodeIds \cup {"n3"}

RemoveHandles == 1..(SetsEvents + 1)

\* C33: in both programs every job id in the subscriber map has a non-empty set,
\* which is the set of the connections of that id that have not ended, so the
\* removal of the last one has deleted the entry; and a removal of a handle that
\* is not in the set of the id, or for an id that is not in the map, would
\* change nothing.
C33_NoEmptySet ==
    /\ \A nodeId \in DOMAIN streams :
          /\ streams[nodeId] # {}
          /\ streams[nodeId] = {res \in HandlesOf(nodeId) : conns[res].open}
    /\ \A nodeId \in NodeIds \ DOMAIN streams :
          \A res \in HandlesOf(nodeId) : ~conns[res].open
    /\ \A id \in DOMAIN hubClients :
          /\ HubSetOf(id) # {}
          /\ HubSetOf(id) = {c \in DOMAIN handlers :
                                handlers[c].id = id /\ handlers[c].pc # "gone"}
    /\ \A id \in NodeIds \ DOMAIN hubClients :
          \A c \in DOMAIN handlers : handlers[c].id = id => handlers[c].pc = "gone"
    /\ \A id \in RemoveIds, c \in RemoveHandles :
          /\ c \notin SubscribersOf(id) => removeClient(Cur, id, c) = Cur
          /\ c \notin HubSetOf(id) => hubRemove(Hub, id, c) = Hub

C33_Witness ==
    /\ \E r1 \in DOMAIN conns, r2 \in DOMAIN conns, r3 \in DOMAIN conns :
          /\ conns[r1].node = conns[r2].node
          /\ conns[r1].open /\ ~conns[r2].open
          /\ ~conns[r3].open /\ conns[r3].node \notin DOMAIN streams
    /\ \E c \in DOMAIN handlers, d \in DOMAIN handlers :
          /\ handlers[c].pc = "gone" /\ handlers[c].id \notin DOMAIN hubClients
          /\ handlers[d].pc # "gone"

----------------------------------------------------------------------------
(* What the ring buffer holds.                                             *)

\* the texts of the log lines published for nodeId so far
LineTexts(nodeId) == {LinesOf(nodeId)[i] : i \in DOMAIN LinesOf(nodeId)}

\* connection res attached after the terminal event of run c was published
AttachedAfterDone(res, c) ==
    /\ children[c].node = conns[res].node
    /\ \E k \in 1..conns[res].at :
          /\ pubLog[conns[res].node][k].type = "done"
          /\ pubLog[conns[res].node][k].run = c

\* C34: every entry of a ring buffer, and so every entry of a bootstrap, is the
\* text of a log line of that job; a connection that attached after a run's
\* terminal event was published is never written a terminal event of that run.
C34_OnlyLinesStored ==
    /\ \A nodeId \in DOMAIN buffers :
          LET texts == LineTexts(nodeId)
          IN  \A i \in DOMAIN buffers[nodeId] : buffers[nodeId][i] \in texts
    /\ \A res \in DOMAIN conns :
          /\ IsBootstrap(conns[res].wire[1])
          /\ LET texts == LineTexts(conns[res].node)
                 boot == BootOf(res)
             IN  \A i \in DOMAIN boot : boot[i] \in texts
          /\ \A c \in DOMAIN children :
                AttachedAfterDone(res, c) =>
                    \A i \in DOMAIN conns[res].wire :
                        IsDone(conns[res].wire[i]) => conns[res].wire[i].data.run # c

C34_Witness ==
    \E res \in DOMAIN conns, c \in DOMAIN children :
        /\ AttachedAfterDone(res, c)
        /\ Len(BootOf(res)) = RingCap
        /\ Len(conns[res].wire) > 1

----------------------------------------------------------------------------
(* The event store of main.go.                                             *)

\* the latest Min(n, max) of the first n events added, oldest first
LatestOf(n) == LastN(SubSeq(store.added, 1, n), Min(n, store.max))

\* C35: a store made with max >= 1 never holds more than max events; it holds
\* the latest min(n, max) of the n events added, in the order of their adding, and
\* list returns those of the moment of the call.
C35_StoreKeepsLatest ==
    store.made =>
        /\ store.max >= 1
        /\ Len(store.events) <= store.max
        /\ store.events = LatestOf(Len(store.added))
        /\ store.lists > 0 => store.out = LatestOf(store.outAt)

C35_Witness ==
    /\ store.made
    /\ store.max > 1
    /\ Len(store.added) > store.max + 1
    /\ store.outAt > store.max
    /\ Len(store.out) = store.max
    /\ store.out # store.events

----------------------------------------------------------------------------
(* The inject route of git.js.                                             *)

\* C36: every POST /git/:id/inject to an existing node is answered once and
\* handed to node.receive once, and never more than once, whatever events its
\* request stream produces.
C36_InjectAnsweredOnce ==
    /\ [](\A i \in DOMAIN injects : injects[i].receives <= 1 /\ injects[i].answers <= 1)
    /\ \A i \in 1..InjectPosts :
          (i \in DOMAIN injects /\ getNode(injects[i].id)) ~>
              (i \in DOMAIN injects /\ injects[i].receives = 1 /\ injects[i].answers = 1)

\* the new link of a links:add event names two nodes that exist, on one tab,
\* and LINK_POLICY.pairs (or its "*" entry) lists the target's type
PolicyAllows(source, target) ==
    LET src == NodeTable[source]
        dst == NodeTable[target]
        key == IF src.type \in DOMAIN LinkPairs THEN src.type ELSE "*"
    IN  /\ src.z = dst.z
        /\ key \in DOMAIN LinkPairs
        /\ dst.type \in LinkPairs[key]

HasLink(d, link) == \E i \in DOMAIN d.links : d.links[i] = link

\* C37: when the handler of part_003 has handled the links:add event of a link
\* whose source and target nodes both exist, the link is still in the diagram
\* only if the two nodes are on one tab and the policy's pairs list the
\* target's type for the source's type; in every other case it is gone.
C37_KeptOnlyIfAllowed ==
    [][\A source \in DOMAIN NodeTable, target \in DOMAIN NodeTable :
          LinksAdd(source, target) =>
              LET link == [n |-> editor'.made, source |-> source, target |-> target]
              IN  /\ HasLink(editor', link) => PolicyAllows(source, target)
                  /\ ~PolicyAllows(source, target) => ~HasLink(editor', link)]_vars

\* one link was kept, one across tabs and one of a pair the policy does not
\* list were removed
C37_Witness ==
    /\ editor.guard = "V2"
    /\ \E i \in DOMAIN editor.links :
          /\ editor.links[i].source \in DOMAIN NodeTable
          /\ editor.links[i].target \in DOMAIN NodeTable
    /\ \E h \in DOMAIN editor.hist :
          LET l == editor.hist[h].links[1]
          IN  /\ l.source \in DOMAIN NodeTable
              /\ l.target \in DOMAIN NodeTable
              /\ ~PolicyAllows(l.source, l.target)
              /\ ~HasLink(editor, l)

\* the links that arrive at a node
InboundOf(id) == getInboundLinks(editor, id)

\* C38: with a link guard loaded (part_003 or settings.js) and the diagram
\* empty at first, after any sequence of links:add events each node of type
\* chaos-create-network has at most one inbound link.
C38_OneInboundLink ==
    \A id \in DOMAIN NodeTable :
        NodeTable[id].type = "chaos-create-network" => Len(InboundOf(id)) <= 1

\* C39: with onMaxIn and onMaxOut set to "reject-new", the handler of part_003
\* leaves every link that was in the diagram before the links:add event where
\* it was, and either keeps the new link too or removes it with exactly one
\* history entry, a delete of the new link alone.
C39_OnlyNewLinkRemoved ==
    [][\A source \in EndIds, target \in EndIds :
          LinksAdd(source, target) =>
              LET link == [n |-> editor'.made, source |-> source, target |-> target]
              IN  \/ /\ editor'.links = Append(editor.links, link)
                     /\ editor'.hist = editor.hist
                  \/ /\ editor'.links = editor.links
                     /\ editor'.hist = Append(editor.hist,
                                              [t |-> "delete", links |-> <<link>>])]_vars

\* a link that the policy allows was removed because its target was full, and
\* the older link to that target is still there
C39_Witness ==
    /\ editor.guard = "V2"
    /\ \E h \in DOMAIN editor.hist, i \in DOMAIN editor.links :
          LET l == editor.hist[h].links[1]
          IN  /\ l.source \in DOMAIN NodeTable
              /\ l.target \in DOMAIN NodeTable
              /\ PolicyAllows(l.source, l.target)
              /\ editor.links[i].target = l.target
              /\ editor.links[i].n < l.n

====
